---- MODULE Spec2Model ----
(***************************************************************************)
(* License server (src/license_server.py): the licenses table, the         *)
(* activation_logs table, the Flask client API (/activate, /verify,        *)
(* /deactivate; one thread per request) and the Telegram admin commands.   *)
(* Time is an integer number of days; `now` is the wall clock.             *)
(*                                                                         *)
(*   licenses  the licenses table: license_key -> row                      *)
(*   logs      the activation_logs table, oldest row first                 *)
(*   pc, req   per Flask thread: where its handler stands, and the request *)
(*             and the row it holds between its SELECT and its commit      *)
(*   out       the last HTTP response or bot reply the server sent         *)
(*                                                                         *)
(* Key generators (generate_license_code of the server and the scripts     *)
(* src/generate_*.py), which run one at a time and share no state with the *)
(* server:                                                                 *)
(*                                                                         *)
(*   generator  the key generator that is running, or NULL                 *)
(*   parts      the segments it has drawn so far                           *)
(*   code       the key the last call returned, or NULL                    *)
(*   script     the batch generator that is running, or NULL               *)
(*   count      the number of keys it was asked for                        *)
(*   codes      its list of keys so far, or the list it has returned       *)
(*   used_codes its set of keys seen (generate_codes.py)                   *)
(***************************************************************************)
EXTENDS Integers, Sequences, FiniteSets, TLC

VARIABLES licenses, logs, now, pc, req, out,
          generator, parts, code, script, count, codes, used_codes

\* the state of the server
server == <<licenses, logs, now, pc, req, out>>
\* the state of the key generators
scripts == <<generator, parts, code, script, count, codes, used_codes>>

vars == <<server, scripts>>

-----------------------------------------------------------------------------
(* Bounds of the model *)

\* the clock runs from 0 to MaxTime
MaxTime == 2
\* rows the activation_logs table may hold under Spec
MaxLogs == 2
\* rows the activation_logs table may hold under SpecRebind
MaxRebindLogs == 3
\* extensions are explored on keys whose expiry is at most MaxExpiry
MaxExpiry == 3
\* a batch generator is asked for at most MaxCount keys
MaxCount == 2

-----------------------------------------------------------------------------
(* Values *)

\* SQL NULL / Python None in a text column or a JSON field
NULL == "NULL"
\* SQL NULL in the activated_at TIMESTAMP column
NoTime == -1

ADMIN_IDS == {590918137}
\* Telegram users that talk to the bot: the admin and a stranger
Users == ADMIN_IDS \cup {1}

\* Flask runs with threaded=True: one thread per request in flight
Threads == {"t1", "t2"}

\* keys random.choices can put together (two of the 32^12)
GenKeys == {"GNP-AAAA-AAAA-AAAA", "GNP-BBBB-BBBB-BBBB"}
\* device_id fields a client may send (NULL: the field is absent)
RequestDevices == {NULL, "A", "B"}

\* str.upper() on the strings above
upper(s) ==
    CASE s = "gnp-aaaa-aaaa-aaaa" -> "GNP-AAAA-AAAA-AAAA"
      [] s = "gnp-bbbb-bbbb-bbbb" -> "GNP-BBBB-BBBB-BBBB"
      [] OTHER -> s

\* str.isdigit() on the argument strings of the model
isdigit(s) == s \in {"0", "1", "2", "7", "8", "30", "31", "90", "91", "365", "366"}

\* int(s) is defined (raises no ValueError)
int_ok(s) == s = "-1" \/ isdigit(s)

\* int(s)
int(s) ==
    CASE s = "-1" -> 0 - 1
      [] s = "0" -> 0
      [] s = "1" -> 1
      [] s = "2" -> 2
      [] s = "7" -> 7
      [] s = "8" -> 8
      [] s = "30" -> 30
      [] s = "31" -> 31
      [] s = "90" -> 90
      [] s = "91" -> 91
      [] s = "365" -> 365
      [] s = "366" -> 366
      [] OTHER -> 0

NoOut == [op |-> "none"]
NoReq == [op |-> "none"]

-----------------------------------------------------------------------------
(* Initial state: init_database() has created two empty tables *)

Init ==
    /\ licenses = <<>>
    /\ logs = <<>>
    /\ now = 0
    /\ pc = [t \in Threads |-> "idle"]
    /\ req = [t \in Threads |-> NoReq]
    /\ out = NoOut
    /\ generator = NULL
    /\ parts = <<>>
    /\ code = NULL
    /\ script = NULL
    /\ count = 0
    /\ codes = <<>>
    /\ used_codes = {}

\* the wall clock advances
Tick ==
    /\ now < MaxTime
    /\ now' = now + 1
    /\ UNCHANGED <<licenses, logs, pc, req, out>>
    /\ UNCHANGED scripts

-----------------------------------------------------------------------------
(* Rows *)

\* a row of the licenses table as create_license inserts it
NewLicense(plan, expires_at, user_name, clock) ==
    [device_id |-> NULL, user_name |-> user_name, plan |-> plan,
     created_at |-> clock, activated_at |-> NoTime, expires_at |-> expires_at,
     is_active |-> TRUE, is_used |-> FALSE]

\* a row of the activation_logs table written without its action
LogRow_no_action(license_key, device_id, action) ==
    [license_key |-> license_key, device_id |-> device_id, action |-> NULL]

\* a row of activation_logs written without the device of the request
LogRow_no_device(license_key, device_id, action) ==
    [license_key |-> license_key, device_id |-> NULL, action |-> action]

\* a row of the activation_logs table
LogRow(license_key, device_id, action) ==
    [license_key |-> license_key, device_id |-> device_id, action |-> action]

\* SQL "column = ?": never true when either side is NULL
sql_eq(column, param) == column # NULL /\ param # NULL /\ column = param

-----------------------------------------------------------------------------
(* POST /activate *)

\* the checks of activate_license with the expiry looked at before is_active
activate_checks_expiry_first(L, license_key, device_id, clock) ==
    IF license_key = "" \/ device_id = NULL THEN "missing"
    ELSE IF license_key \notin DOMAIN L THEN "not_found"
    ELSE IF clock > L[license_key].expires_at THEN "expired"
    ELSE IF ~L[license_key].is_active THEN "suspended"
    ELSE IF L[license_key].is_used /\ L[license_key].device_id # device_id THEN "mismatch"
    ELSE "ok"

\* the checks of activate_license in the order of the code; "ok" when all pass
activate_checks(L, license_key, device_id, clock) ==
    IF license_key = "" \/ device_id = NULL THEN "missing"
    ELSE IF license_key \notin DOMAIN L THEN "not_found"
    ELSE IF ~L[license_key].is_active THEN "suspended"
    ELSE IF clock > L[license_key].expires_at THEN "expired"
    ELSE IF L[license_key].is_used /\ L[license_key].device_id # device_id THEN "mismatch"
    ELSE "ok"

\* the HTTP status and JSON body of a failed activate
activate_failure(outcome) ==
    CASE outcome = "missing" ->
           [op |-> "activate", status |-> 400, success |-> FALSE, message |-> "missing_data"]
      [] outcome = "not_found" ->
           [op |-> "activate", status |-> 400, success |-> FALSE, message |-> "invalid_code"]
      [] outcome = "suspended" ->
           [op |-> "activate", status |-> 423, success |-> FALSE, message |-> "stopped_by_admin"]
      [] outcome = "expired" ->
           [op |-> "activate", status |-> 410, success |-> FALSE, message |-> "expired"]
      [] OTHER ->
           [op |-> "activate", status |-> 403, success |-> FALSE, message |-> "used_on_other_device"]

\* the JSON body of a successful activate, built from the row the SELECT returned
activate_success(license_row) ==
    [op |-> "activate", status |-> 200, success |-> TRUE, message |-> "activated",
     expires_at |-> license_row.expires_at, plan |-> license_row.plan,
     user_name |-> license_row.user_name]

\* an UPDATE of activate_license that also sets is_active
activate_update_resumes(L, license_key, device_id, clock) ==
    IF license_key \in DOMAIN L
    THEN [L EXCEPT ![license_key] =
             [@ EXCEPT !.device_id = device_id, !.is_used = TRUE, !.activated_at = clock,
                       !.is_active = TRUE]]
    ELSE L

\* the UPDATE of activate_license
activate_update(L, license_key, device_id, clock) ==
    IF license_key \in DOMAIN L
    THEN [L EXCEPT ![license_key] =
             [@ EXCEPT !.device_id = device_id, !.is_used = TRUE, !.activated_at = clock]]
    ELSE L

\* request parsing, SELECT and the four checks: a failure answers at once,
\* otherwise the thread goes on to its UPDATE holding the row it read
ActivateRequest(t, key_in, device_id) ==
    /\ pc[t] = "idle"
    /\ LET license_key == upper(key_in)
           outcome == activate_checks(licenses, license_key, device_id, now)
       IN IF outcome = "ok"
          THEN /\ pc' = [pc EXCEPT ![t] = "activate_update"]
               /\ req' = [req EXCEPT ![t] =
                            [op |-> "activate", license_key |-> license_key,
                             device_id |-> device_id, license_row |-> licenses[license_key]]]
               /\ UNCHANGED out
          ELSE /\ out' = activate_failure(outcome)
               /\ UNCHANGED <<pc, req>>
    /\ UNCHANGED <<licenses, logs, now>>
    /\ UNCHANGED scripts

\* UPDATE, INSERT INTO activation_logs, commit and the success answer
ActivateCommit(t) ==
    /\ pc[t] = "activate_update"
    /\ licenses' = activate_update(licenses, req[t].license_key, req[t].device_id, now)
    /\ logs' = Append(logs, LogRow(req[t].license_key, req[t].device_id, "activate"))
    /\ out' = activate_success(req[t].license_row)
    /\ pc' = [pc EXCEPT ![t] = "idle"]
    /\ req' = [req EXCEPT ![t] = NoReq]
    /\ UNCHANGED now
    /\ UNCHANGED scripts

\* the answer of Flask to a request whose handler raised
server_error(op) == [op |-> op, status |-> 500]

\* the INSERT INTO activation_logs of activate_license raises after its UPDATE:
\* the handler ends before conn.commit(), the connection is dropped with its
\* open transaction, and Flask answers 500
ActivateLogFails(t) ==
    /\ pc[t] = "activate_update"
    /\ out' = server_error("activate")
    /\ pc' = [pc EXCEPT ![t] = "idle"]
    /\ req' = [req EXCEPT ![t] = NoReq]
    /\ UNCHANGED <<licenses, logs, now>>
    /\ UNCHANGED scripts

-----------------------------------------------------------------------------
(* POST /verify *)

\* the checks of verify_license without the look at is_active
verify_checks_ignores_stop(L, license_key, device_id, clock) ==
    IF license_key \notin DOMAIN L THEN "not_found"
    ELSE IF L[license_key].device_id # device_id THEN "mismatch"
    ELSE IF clock > L[license_key].expires_at THEN "expired"
    ELSE "ok"

\* the checks of verify_license in the order of the code; "ok" when all pass
\* the checks of /verify with the state of the key looked at before the device
verify_checks_status_first(L, license_key, device_id, clock) ==
    IF license_key \notin DOMAIN L THEN "not_found"
    ELSE IF ~L[license_key].is_active THEN "suspended"
    ELSE IF clock > L[license_key].expires_at THEN "expired"
    ELSE IF L[license_key].device_id # device_id THEN "mismatch"
    ELSE "ok"

verify_checks(L, license_key, device_id, clock) ==
    IF license_key \notin DOMAIN L THEN "not_found"
    ELSE IF L[license_key].device_id # device_id THEN "mismatch"
    ELSE IF ~L[license_key].is_active THEN "suspended"
    ELSE IF clock > L[license_key].expires_at THEN "expired"
    ELSE "ok"

\* the JSON body of a failed verify with the plan and expiry fields of the
\* successful one left in
verify_failure_with_plan(outcome) ==
    [op |-> "verify", status |-> 200, is_active |-> FALSE, message |-> outcome,
     expires_at |-> NoTime, plan |-> NULL]

\* the JSON body of a failed verify (the HTTP status is always 200)
verify_failure(outcome) ==
    CASE outcome = "not_found" ->
           [op |-> "verify", status |-> 200, is_active |-> FALSE, message |-> "code_not_found"]
      [] outcome = "mismatch" ->
           [op |-> "verify", status |-> 200, is_active |-> FALSE, message |-> "device_not_allowed"]
      [] outcome = "suspended" ->
           [op |-> "verify", status |-> 200, is_active |-> FALSE, message |-> "stopped"]
      [] OTHER ->
           [op |-> "verify", status |-> 200, is_active |-> FALSE, message |-> "expired"]

\* the JSON body of a successful verify
verify_success(license_row) ==
    [op |-> "verify", status |-> 200, is_active |-> TRUE,
     expires_at |-> license_row.expires_at, plan |-> license_row.plan]

\* a verify that binds the key to the device it has just accepted
verify_update_binds(L, license_key, device_id) ==
    [k \in DOMAIN L |->
        IF k = license_key
        THEN [L[k] EXCEPT !.device_id = device_id, !.is_used = TRUE]
        ELSE L[k]]

\* what verify_license writes to the licenses table: nothing
verify_update(L, license_key, device_id) == L

\* request parsing, SELECT and the four checks
VerifyRequest(t, key_in, device_id) ==
    /\ pc[t] = "idle"
    /\ LET license_key == upper(key_in)
           outcome == verify_checks(licenses, license_key, device_id, now)
       IN IF outcome = "ok"
          THEN /\ pc' = [pc EXCEPT ![t] = "verify_log"]
               /\ req' = [req EXCEPT ![t] =
                            [op |-> "verify", license_key |-> license_key,
                             device_id |-> device_id, license_row |-> licenses[license_key]]]
               /\ UNCHANGED out
          ELSE /\ out' = verify_failure(outcome)
               /\ UNCHANGED <<pc, req>>
    /\ UNCHANGED <<licenses, logs, now>>
    /\ UNCHANGED scripts

\* INSERT INTO activation_logs, commit and the success answer
VerifyCommit(t) ==
    /\ pc[t] = "verify_log"
    /\ licenses' = verify_update(licenses, req[t].license_key, req[t].device_id)
    /\ logs' = Append(logs, LogRow(req[t].license_key, req[t].device_id, "verify"))
    /\ out' = verify_success(req[t].license_row)
    /\ pc' = [pc EXCEPT ![t] = "idle"]
    /\ req' = [req EXCEPT ![t] = NoReq]
    /\ UNCHANGED now
    /\ UNCHANGED scripts

-----------------------------------------------------------------------------
(* POST /deactivate *)

\* the UPDATE of deactivate_license without "AND device_id = ?"
deactivate_update_any_device(L, license_key, device_id) ==
    [k \in DOMAIN L |->
        IF k = license_key
        THEN [L[k] EXCEPT !.device_id = NULL, !.is_used = FALSE]
        ELSE L[k]]

\* the UPDATE of deactivate_license without "is_used = 0"
deactivate_update_keeps_used(L, license_key, device_id) ==
    [k \in DOMAIN L |->
        IF k = license_key /\ sql_eq(L[k].device_id, device_id)
        THEN [L[k] EXCEPT !.device_id = NULL]
        ELSE L[k]]

\* an UPDATE of deactivate_license that resets is_used and leaves device_id
deactivate_update_keeps_device(L, license_key, device_id) ==
    [k \in DOMAIN L |->
        IF k = license_key /\ sql_eq(L[k].device_id, device_id)
        THEN [L[k] EXCEPT !.is_used = FALSE]
        ELSE L[k]]

\* UPDATE licenses SET device_id = NULL, is_used = 0
\* WHERE license_key = ? AND device_id = ?
deactivate_update(L, license_key, device_id) ==
    [k \in DOMAIN L |->
        IF k = license_key /\ sql_eq(L[k].device_id, device_id)
        THEN [L[k] EXCEPT !.device_id = NULL, !.is_used = FALSE]
        ELSE L[k]]

\* the whole handler: one transaction, always answered with success
DeactivateRequest(t, key_in, device_id) ==
    /\ pc[t] = "idle"
    /\ LET license_key == upper(key_in)
       IN /\ licenses' = deactivate_update(licenses, license_key, device_id)
          /\ logs' = Append(logs, LogRow(license_key, device_id, "deactivate"))
    /\ out' = [op |-> "deactivate", status |-> 200, success |-> TRUE]
    /\ UNCHANGED <<now, pc, req>>
    /\ UNCHANGED scripts

\* the INSERT INTO activation_logs of deactivate_license raises after its
\* UPDATE: nothing is committed and Flask answers 500
DeactivateLogFails(t, key_in, device_id) ==
    /\ pc[t] = "idle"
    /\ out' = server_error("deactivate")
    /\ UNCHANGED <<licenses, logs, now, pc, req>>
    /\ UNCHANGED scripts

-----------------------------------------------------------------------------
(* Telegram bot: the bot's event loop runs one handler at a time *)

\* the outcome of a bot handler: the text it replies with, or "raised" when it
\* ends in an exception and replies nothing
bot_reply(command, text) == [op |-> command, reply |-> text]

\* the plan with the limits of the tiers taken as strict
plan_of_days_strict(days) ==
    IF days < 7 THEN "trial"
    ELSE IF days < 30 THEN "monthly"
    ELSE IF days < 90 THEN "quarterly"
    ELSE IF days < 365 THEN "yearly"
    ELSE "lifetime"

\* the plan generate_command derives from the number of days
plan_of_days(days) ==
    IF days <= 7 THEN "trial"
    ELSE IF days <= 30 THEN "monthly"
    ELSE IF days <= 90 THEN "quarterly"
    ELSE IF days <= 365 THEN "yearly"
    ELSE "lifetime"

\* the days generate_command takes from its arguments (30 unless args[0] is a number)
generate_days(args) ==
    IF Len(args) > 0 /\ isdigit(args[1]) THEN int(args[1]) ELSE 30

\* the user_name generate_command takes from its arguments
generate_user_name(args) ==
    IF Len(args) > 1 THEN args[2] ELSE NULL

\* create_license with INSERT OR REPLACE: a present key gets the new row
create_license_replaces(L, license_key, plan, days, user_name, clock) ==
    [k \in DOMAIN L \cup {license_key} |->
        IF k = license_key THEN NewLicense(plan, clock + days, user_name, clock) ELSE L[k]]

\* create_license: INSERT of a row under the key the generator returned; the
\* UNIQUE constraint on license_key makes the INSERT of a present key raise
create_license(L, license_key, plan, days, user_name, clock) ==
    IF license_key \in DOMAIN L
    THEN L
    ELSE L @@ (license_key :> NewLicense(plan, clock + days, user_name, clock))

\* /generate [days] [name]; license_key is what generate_license_code returns
generate_command(user_id, args, license_key) ==
    /\ IF user_id \notin ADMIN_IDS
       THEN /\ out' = bot_reply("/generate", "unauthorized")
            /\ UNCHANGED licenses
       ELSE LET days == generate_days(args)
                plan == plan_of_days(days)
            IN /\ licenses' = create_license(licenses, license_key, plan, days,
                                             generate_user_name(args), now)
               /\ out' = bot_reply("/generate", IF license_key \in DOMAIN licenses THEN "raised" ELSE "created")
    /\ UNCHANGED <<logs, now, pc, req>>
    /\ UNCHANGED scripts

\* /list: the last 20 rows; the table is only read
list_command(user_id) ==
    /\ out' = bot_reply("/list", IF user_id \notin ADMIN_IDS THEN "unauthorized"
                                 ELSE IF DOMAIN licenses = {} THEN "no_codes"
                                 ELSE "codes")
    /\ UNCHANGED <<licenses, logs, now, pc, req>>
    /\ UNCHANGED scripts

\* /info [code]: the row, its last 5 log rows and its buttons; the tables are only read
info_command(user_id, args) ==
    /\ out' = bot_reply("/info", IF user_id \notin ADMIN_IDS THEN "unauthorized"
                                 ELSE IF Len(args) = 0 THEN "usage_info"
                                 ELSE IF upper(args[1]) \notin DOMAIN licenses THEN "not_found"
                                 ELSE "info")
    /\ UNCHANGED <<licenses, logs, now, pc, req>>
    /\ UNCHANGED scripts

\* /stats: counts over the table, which is only read
stats_command(user_id) ==
    /\ out' = bot_reply("/stats", IF user_id \notin ADMIN_IDS THEN "unauthorized" ELSE "stats")
    /\ UNCHANGED <<licenses, logs, now, pc, req>>
    /\ UNCHANGED scripts

\* an UPDATE of is_active that also clears the binding of the row
set_active_unbinds(L, license_key, is_active) ==
    [k \in DOMAIN L |->
        IF k = license_key
        THEN [L[k] EXCEPT !.is_active = is_active, !.device_id = NULL, !.is_used = FALSE]
        ELSE L[k]]

\* UPDATE licenses SET is_active = ? WHERE license_key = ?
set_active(L, license_key, is_active) ==
    [k \in DOMAIN L |-> IF k = license_key THEN [L[k] EXCEPT !.is_active = is_active] ELSE L[k]]

\* /stop [code] without the admin_only decorator
stop_command_open(user_id, args) ==
    /\ IF Len(args) = 0
       THEN /\ out' = bot_reply("/stop", "usage_stop")
            /\ UNCHANGED licenses
       ELSE LET license_key == upper(args[1])
            IN /\ licenses' = set_active(licenses, license_key, FALSE)
               /\ out' = bot_reply("/stop", IF license_key \in DOMAIN licenses THEN "stopped" ELSE "not_found")
    /\ UNCHANGED <<logs, now, pc, req>>
    /\ UNCHANGED scripts

\* /stop [code]
stop_command(user_id, args) ==
    /\ IF user_id \notin ADMIN_IDS
       THEN /\ out' = bot_reply("/stop", "unauthorized")
            /\ UNCHANGED licenses
       ELSE IF Len(args) = 0
       THEN /\ out' = bot_reply("/stop", "usage_stop")
            /\ UNCHANGED licenses
       ELSE LET license_key == upper(args[1])
            IN /\ licenses' = set_active(licenses, license_key, FALSE)
               /\ out' = bot_reply("/stop", IF license_key \in DOMAIN licenses THEN "stopped" ELSE "not_found")
    /\ UNCHANGED <<logs, now, pc, req>>
    /\ UNCHANGED scripts

\* /activate [code]
activate_command(user_id, args) ==
    /\ IF user_id \notin ADMIN_IDS
       THEN /\ out' = bot_reply("/activate", "unauthorized")
            /\ UNCHANGED licenses
       ELSE IF Len(args) = 0
       THEN /\ out' = bot_reply("/activate", "usage_activate")
            /\ UNCHANGED licenses
       ELSE LET license_key == upper(args[1])
            IN /\ licenses' = set_active(licenses, license_key, TRUE)
               /\ out' = bot_reply("/activate", IF license_key \in DOMAIN licenses THEN "activated" ELSE "not_found")
    /\ UNCHANGED <<logs, now, pc, req>>
    /\ UNCHANGED scripts

\* the new expiry of extend_command and of the ext buttons: clock1 is the
\* datetime.now() of the comparison, clock2 the datetime.now() of the assignment
new_expiry(expires_at, days, clock1, clock2) ==
    LET current_expiry == IF expires_at < clock1 THEN clock2 ELSE expires_at
    IN current_expiry + days

\* UPDATE licenses SET expires_at = ? WHERE license_key = ?
set_expires_at(L, license_key, expires_at) ==
    [k \in DOMAIN L |-> IF k = license_key THEN [L[k] EXCEPT !.expires_at = expires_at] ELSE L[k]]

\* /extend [code] [days]; the clock may advance by `elapsed` between the two
\* datetime.now() calls of the handler
extend_command(user_id, args, elapsed) ==
    /\ now + elapsed <= MaxTime
    /\ IF user_id \notin ADMIN_IDS
       THEN /\ out' = bot_reply("/extend", "unauthorized")
            /\ UNCHANGED <<licenses, now>>
       ELSE IF Len(args) < 2
       THEN /\ out' = bot_reply("/extend", "usage_extend")
            /\ UNCHANGED <<licenses, now>>
       ELSE IF ~int_ok(args[2])
       THEN /\ out' = bot_reply("/extend", "raised")
            /\ UNCHANGED <<licenses, now>>
       ELSE LET license_key == upper(args[1])
                days == int(args[2])
            IN IF license_key \notin DOMAIN licenses
               THEN /\ out' = bot_reply("/extend", "not_found")
                    /\ UNCHANGED <<licenses, now>>
               ELSE LET expiry == new_expiry(licenses[license_key].expires_at, days,
                                             now, now + elapsed)
                    IN /\ licenses[license_key].expires_at <= MaxExpiry
                       /\ licenses' = set_expires_at(licenses, license_key, expiry)
                       /\ now' = now + elapsed
                       /\ out' = bot_reply("/extend", "extended")
    /\ UNCHANGED <<logs, pc, req>>
    /\ UNCHANGED scripts

\* the inline buttons; data is the parsed callback_data: its action ("gen_monthly",
\* "list_codes", "stats", "toggle", "extend", "ext", "delete"), and where the
\* callback_data carries them the license key and the days of an ext button
button_callback(user_id, data, generated_key, elapsed) ==
    /\ now + elapsed <= MaxTime
    /\ IF user_id \notin ADMIN_IDS
       THEN /\ out' = bot_reply("button", "unauthorized")
            /\ UNCHANGED <<licenses, now>>
       ELSE IF data.action = "gen_monthly"
       THEN /\ licenses' = create_license(licenses, generated_key, "monthly", 30, NULL, now)
            /\ out' = bot_reply("button",
                                IF generated_key \in DOMAIN licenses THEN "raised" ELSE "created")
            /\ UNCHANGED now
       ELSE IF data.action = "list_codes"
       THEN /\ out' = bot_reply("button", "use_list")
            /\ UNCHANGED <<licenses, now>>
       ELSE IF data.action = "stats"
       THEN /\ out' = bot_reply("button", "use_stats")
            /\ UNCHANGED <<licenses, now>>
       ELSE IF data.action = "toggle"
       THEN IF data.license_key \in DOMAIN licenses
            THEN /\ licenses' = set_active(licenses, data.license_key,
                                           ~licenses[data.license_key].is_active)
                 /\ out' = bot_reply("button", IF licenses[data.license_key].is_active
                                               THEN "now_stopped" ELSE "now_active")
                 /\ UNCHANGED now
            ELSE /\ out' = bot_reply("button", "none")
                 /\ UNCHANGED <<licenses, now>>
       ELSE IF data.action = "extend"
       THEN /\ out' = bot_reply("button", "choose_days")
            /\ UNCHANGED <<licenses, now>>
       ELSE IF data.action = "ext"
       THEN IF data.license_key \in DOMAIN licenses
            THEN LET expiry == new_expiry(licenses[data.license_key].expires_at, data.days,
                                          now, now + elapsed)
                 IN /\ licenses[data.license_key].expires_at <= MaxExpiry
                    /\ licenses' = set_expires_at(licenses, data.license_key, expiry)
                    /\ now' = now + elapsed
                    /\ out' = bot_reply("button", "extended")
            ELSE /\ out' = bot_reply("button", "none")
                 /\ UNCHANGED <<licenses, now>>
       ELSE /\ out' = bot_reply("button", "none")
            /\ UNCHANGED <<licenses, now>>
    /\ UNCHANGED <<logs, pc, req>>
    /\ UNCHANGED scripts

-----------------------------------------------------------------------------
(* Inputs *)

\* the days of the four ext buttons
ButtonDays == {7, 30, 90, 365}
\* callback_data of the buttons the bot shows
ButtonData ==
    {[action |-> a] : a \in {"gen_monthly", "list_codes", "stats"}} \cup
    {[action |-> a, license_key |-> k] : a \in {"toggle", "extend", "delete"}, k \in GenKeys} \cup
    {[action |-> "ext", days |-> d, license_key |-> k] : d \in ButtonDays, k \in GenKeys}

\* argument lists of /generate
GenerateArgs == {<<>>, <<"0">>, <<"1", "ali">>, <<"x">>}
\* argument lists of /stop, /activate and /info
KeyArgs == {<<>>, <<"gnp-aaaa-aaaa-aaaa">>, <<"GNP-BBBB-BBBB-BBBB">>}
\* argument lists of /extend
ExtendArgs ==
    {<<"GNP-AAAA-AAAA-AAAA">>, <<"GNP-BBBB-BBBB-BBBB", "1">>} \cup
    {<<"gnp-aaaa-aaaa-aaaa", d>> : d \in {"-1", "0", "1", "x"}}

\* <<license_key, device_id>> fields of the requests to /activate and /verify
ClientInputs ==
    {<<"gnp-aaaa-aaaa-aaaa", d>> : d \in RequestDevices} \cup
    {<<"GNP-BBBB-BBBB-BBBB", "A">>, <<"", "A">>}
\* <<license_key, device_id>> fields of the requests to /deactivate
DeactivateInputs ==
    {<<"gnp-aaaa-aaaa-aaaa", d>> : d \in RequestDevices} \cup {<<"GNP-BBBB-BBBB-BBBB", "A">>}

\* the log has room for another row
Room(max) == Len(logs) < max

\* /generate with the arguments A, /stop and /activate, from the users U, with
\* keys out of G from the generator
KeyAdminNext(U, A, G) ==
    \E u \in U :
        \/ \E a \in A, k \in G : generate_command(u, a, k)
        \/ \E a \in KeyArgs : stop_command(u, a) \/ activate_command(u, a)

\* /list, /info and /stats from the users U
ReadNext(U) ==
    \E u \in U :
        \/ list_command(u)
        \/ \E a \in KeyArgs : info_command(u, a)
        \/ stats_command(u)

\* /extend from the users U
ExtendNext(U) ==
    \E u \in U, a \in ExtendArgs, e \in {0, 1} : extend_command(u, a, e)

\* the buttons pressed by the users U; the buttons that carry a key are the ones
\* info_command has shown for a row of the table, and rows are never deleted; the
\* generator is asked for a key by gen_monthly alone, and the clock is read twice
\* by the ext buttons alone
ButtonNext(U) ==
    \E u \in U :
        \/ \E k \in GenKeys : button_callback(u, [action |-> "gen_monthly"], k, 0)
        \/ \E data \in {b \in ButtonData : /\ b.action \notin {"gen_monthly", "ext"}
                                           /\ "license_key" \in DOMAIN b =>
                                                  b.license_key \in DOMAIN licenses} :
              button_callback(u, data, "GNP-AAAA-AAAA-AAAA", 0)
        \/ \E data \in {b \in ButtonData : /\ b.action = "ext"
                                           /\ b.license_key \in DOMAIN licenses},
              e \in {0, 1} :
              button_callback(u, data, "GNP-AAAA-AAAA-AAAA", e)

\* the client API with one request in flight, and the admin's key commands
Next ==
    \/ Tick
    \/ Room(MaxLogs) /\ \E i \in ClientInputs : ActivateRequest("t1", i[1], i[2])
    \/ Room(MaxLogs) /\ ActivateCommit("t1")
    \/ Room(MaxLogs) /\ \E i \in ClientInputs : VerifyRequest("t1", i[1], i[2])
    \/ Room(MaxLogs) /\ VerifyCommit("t1")
    \/ Room(MaxLogs) /\ \E i \in DeactivateInputs : DeactivateRequest("t1", i[1], i[2])
    \/ KeyAdminNext(ADMIN_IDS, GenerateArgs \ {<<"0">>}, {"GNP-AAAA-AAAA-AAAA"})

Spec == Init /\ [][Next]_vars

\* the bot alone: every command and button of the admin (the users that are not
\* admins have SpecStranger)
NextAdmin ==
    \/ Tick
    \/ KeyAdminNext(ADMIN_IDS, GenerateArgs, {"GNP-AAAA-AAAA-AAAA"})
    \/ ReadNext(ADMIN_IDS)
    \/ ExtendNext(ADMIN_IDS)
    \/ ButtonNext(ADMIN_IDS)

SpecAdmin == Init /\ [][NextAdmin]_vars

-----------------------------------------------------------------------------
(* The client API and the admin's key commands as under Spec, with a store  *)
(* that may fail the INSERT into activation_logs.                           *)

NextFault ==
    \/ Next
    \/ Room(MaxLogs) /\ ActivateLogFails("t1")
    \/ Room(MaxLogs) /\ \E i \in DeactivateInputs : DeactivateLogFails("t1", i[1], i[2])

SpecFault == Init /\ [][NextFault]_vars

-----------------------------------------------------------------------------
(* Users that are not admins: they send every command and press every      *)
(* button, with any callback_data, against a table in which the admin      *)
(* creates and stops keys.                                                 *)

NextStranger ==
    \/ Tick
    \/ \E a \in GenerateArgs : generate_command(590918137, a, "GNP-AAAA-AAAA-AAAA")
    \/ \E k \in GenKeys : button_callback(590918137, [action |-> "gen_monthly"], k, 0)
    \/ \E a \in KeyArgs : stop_command(590918137, a)
    \/ \E u \in Users \ ADMIN_IDS :
          \/ \E a \in GenerateArgs, k \in GenKeys : generate_command(u, a, k)
          \/ list_command(u)
          \/ \E a \in KeyArgs : info_command(u, a)
          \/ \E a \in KeyArgs : stop_command(u, a)
          \/ \E a \in KeyArgs : activate_command(u, a)
          \/ \E a \in ExtendArgs, e \in {0, 1} : extend_command(u, a, e)
          \/ stats_command(u)
          \/ \E data \in ButtonData, k \in GenKeys, e \in {0, 1} : button_callback(u, data, k, e)

SpecStranger == Init /\ [][NextStranger]_vars

-----------------------------------------------------------------------------
(* The race of two /activate requests: each of the two threads sends one   *)
(* request for RaceKey, thread t with the device RaceDevice(t), once the   *)
(* key exists, is active, unexpired and unused or taken by the other of    *)
(* the two; nothing else runs once the first request is in.                *)

RaceKey == "GNP-AAAA-AAAA-AAAA"
RaceDevice(t) == IF t = "t1" THEN "A" ELSE "B"

\* the log holds the 'activate' row of thread t: its request was answered with success
RaceWon(t) == \E n \in 1..Len(logs) : logs[n].device_id = RaceDevice(t)

\* the last response is a failure of /activate; in the race it can only be the
\* answer to the request that came second
RaceLost == out.op = "activate" /\ out.status # 200

\* thread t has sent its request
RaceSent(t) == pc[t] # "idle" \/ RaceWon(t) \/ (RaceLost /\ ~RaceWon(t))

\* both requests are answered
RaceOver == \A t \in Threads : pc[t] = "idle" /\ RaceSent(t)

\* the threads that may send their request: the key is there, active and
\* unexpired, and unused unless the other request is in
RaceReady ==
    IF /\ RaceKey \in DOMAIN licenses
       /\ licenses[RaceKey].is_active
       /\ now < licenses[RaceKey].expires_at
    THEN {t \in Threads : /\ ~RaceSent(t)
                          /\ (\E o \in Threads : RaceSent(o)) \/ ~licenses[RaceKey].is_used}
    ELSE {}

\* the clock may advance: before the race at will, then while the key stays unexpired
RaceClock ==
    IF RaceKey \in DOMAIN licenses /\ \E t \in Threads : RaceSent(t)
    THEN licenses[RaceKey].expires_at - 1
    ELSE MaxTime

NextRace ==
    \/ now < RaceClock /\ Tick
    \/ \E a \in IF \E t \in Threads : RaceSent(t) THEN {} ELSE {<<>>, <<"1", "ali">>} :
          generate_command(590918137, a, RaceKey)
    \/ \E t \in RaceReady : ActivateRequest(t, "gnp-aaaa-aaaa-aaaa", RaceDevice(t))
    \/ \E t \in Threads : ActivateCommit(t)

SpecRace == Init /\ [][NextRace]_vars

-----------------------------------------------------------------------------
(* Binding, unbinding and binding again: one request at a time for the key *)
(* RaceKey from the devices A and B, while the admin creates, stops and    *)
(* resumes the key and the clock runs.                                     *)

RebindInputs == {<<"gnp-aaaa-aaaa-aaaa", d>> : d \in {"A", "B"}}

NextRebind ==
    \/ Tick
    \/ \E a \in {<<>>, <<"1", "ali">>} : generate_command(590918137, a, RaceKey)
    \/ stop_command(590918137, <<RaceKey>>)
    \/ activate_command(590918137, <<RaceKey>>)
    \/ Room(MaxRebindLogs) /\ \E i \in RebindInputs : ActivateRequest("t1", i[1], i[2])
    \/ Room(MaxRebindLogs) /\ ActivateCommit("t1")
    \/ Room(MaxRebindLogs) /\ \E i \in RebindInputs : DeactivateRequest("t1", i[1], i[2])

SpecRebind == Init /\ [][NextRebind]_vars

-----------------------------------------------------------------------------
(* Keys of every plan: the admin creates keys for the durations at the      *)
(* limits of the tiers and extends them, and one device activates and      *)
(* verifies them.                                                          *)

\* argument lists of /generate at the limits of the tiers
PlanArgs ==
    {<<>>, <<"1", "ali">>, <<"7">>, <<"8">>, <<"30">>, <<"31">>, <<"90">>, <<"91">>,
     <<"365">>, <<"366">>}

NextPlan ==
    \/ Tick
    \/ \E a \in PlanArgs : generate_command(590918137, a, RaceKey)
    \/ button_callback(590918137, [action |-> "gen_monthly"], "GNP-BBBB-BBBB-BBBB", 0)
    \/ extend_command(590918137, <<RaceKey, "1">>, 0)
    \/ Room(MaxLogs) /\ ActivateRequest("t1", RaceKey, "A")
    \/ Room(MaxLogs) /\ ActivateCommit("t1")
    \/ Room(MaxLogs) /\ VerifyRequest("t1", RaceKey, "A")
    \/ Room(MaxLogs) /\ VerifyCommit("t1")

SpecPlan == Init /\ [][NextPlan]_vars

-----------------------------------------------------------------------------
(* Key generators.  A string is the sequence of its characters.  The random  *)
(* source is the sequence of positions random.choices picks in its          *)
(* population; the model lets it pick among RandomPositions.                *)

\* chars of generate_license_code
chars ==
    <<"A", "B", "C", "D", "E", "F", "G", "H", "J", "K", "L", "M", "N", "P", "Q", "R",
      "S", "T", "U", "V", "W", "X", "Y", "Z", "2", "3", "4", "5", "6", "7", "8", "9">>

\* string.ascii_uppercase + string.digits
ascii_uppercase_digits ==
    <<"A", "B", "C", "D", "E", "F", "G", "H", "I", "J", "K", "L", "M", "N", "O", "P",
      "Q", "R", "S", "T", "U", "V", "W", "X", "Y", "Z",
      "0", "1", "2", "3", "4", "5", "6", "7", "8", "9">>

\* the key generators: generate_license_code of license_server.py, generate_code
\* of generate_codes.py (and generate_3days_codes.py), generate_code of
\* generate_5days_codes.py (and generate_lifetime_codes.py), and
\* generate_code_4parts of generate_all_codes_4parts.py
Generators ==
    {"generate_license_code", "generate_code", "generate_code_5days", "generate_code_4parts"}

\* the population a generator draws from
population(g) == IF g = "generate_license_code" THEN chars ELSE ascii_uppercase_digits

\* the range of the generator's loop
range(g) == IF g = "generate_code_5days" THEN 4 ELSE 3

\* positions the random source picks: "A" and "Q" of chars, "A" and "O" of
\* ascii_uppercase_digits
RandomPositions == {1, 15}

\* the picks of one random.choices(population, k=4)
Draws == [1..4 -> RandomPositions]

\* random.choices(population, k=Len(draw)) and ''.join of it
choices(pop, draw) == [i \in 1..Len(draw) |-> pop[draw[i]]]

RECURSIVE join(_, _)
\* sep.join(list)
join(sep, list) ==
    IF list = <<>> THEN <<>>
    ELSE IF Len(list) = 1 THEN list[1]
    ELSE list[1] \o <<sep>> \o join(sep, Tail(list))

\* f"GNP-{'-'.join(parts)}"
format_code(list) == <<"G", "N", "P", "-">> \o join("-", list)

\* a generator is called
generate_code_call(g) ==
    /\ generator = NULL /\ script = NULL
    /\ generator' = g
    /\ parts' = <<>>
    /\ code' = NULL
    /\ UNCHANGED <<server, script, count, codes, used_codes>>

\* one turn of its loop: a segment is drawn and appended
generate_code_segment(draw) ==
    /\ generator # NULL
    /\ Len(parts) < range(generator)
    /\ parts' = Append(parts, choices(population(generator), draw))
    /\ UNCHANGED <<server, generator, code, script, count, codes, used_codes>>

\* the loop is over: the key is returned
generate_code_return ==
    /\ generator # NULL
    /\ Len(parts) = range(generator)
    /\ code' = format_code(parts)
    /\ generator' = NULL
    /\ parts' = <<>>
    /\ UNCHANGED <<server, script, count, codes, used_codes>>

NextKey ==
    \/ \E g \in Generators : generate_code_call(g)
    \/ \E draw \in Draws : generate_code_segment(draw)
    \/ generate_code_return

SpecKey == Init /\ [][NextKey]_vars

-----------------------------------------------------------------------------
(* Batch generators: generate_codes of generate_codes.py (the loop of       *)
(* generate_3days_codes.py is the same), of generate_all_codes_4parts.py    *)
(* and of generate_5days_codes.py (the loop of generate_lifetime_codes.py   *)
(* is the same).  An entry of the list is its code and status; its dates    *)
(* are left out.  The random source gives each segment four times the same  *)
(* position.                                                                *)

Scripts == {"generate_codes", "generate_codes_4parts", "generate_codes_5days"}

\* the key generator a batch generator calls
generator_of(s) ==
    CASE s = "generate_codes" -> "generate_code"
      [] s = "generate_codes_4parts" -> "generate_code_4parts"
      [] s = "generate_codes_5days" -> "generate_code_5days"

\* the picks of the random.choices calls of a batch
BatchDraws == {[i \in 1..4 |-> p] : p \in RandomPositions}

\* one whole call of the generator g, whose loop draws draws[1], draws[2], ...
generate_code(g, draws) ==
    format_code([i \in 1..range(g) |-> choices(population(g), draws[i])])

\* a batch generator is called for n keys
generate_codes_call(s, n) ==
    /\ script = NULL /\ generator = NULL
    /\ script' = s
    /\ count' = n
    /\ codes' = <<>>
    /\ used_codes' = {}
    /\ UNCHANGED <<server, generator, parts, code>>

\* one turn of `while len(codes) < count` of generate_codes.py
generate_codes_while(draws) ==
    /\ script = "generate_codes"
    /\ Len(codes) < count
    /\ LET c == generate_code(generator_of(script), draws)
       IN IF c \notin used_codes
          THEN /\ used_codes' = used_codes \cup {c}
               /\ codes' = Append(codes, [code |-> c, status |-> "active"])
          ELSE UNCHANGED <<used_codes, codes>>
    /\ UNCHANGED <<server, generator, parts, code, script, count>>

\* one turn of `for _ in range(count)` of the other two scripts
generate_codes_for(draws) ==
    /\ script \in {"generate_codes_4parts", "generate_codes_5days"}
    /\ Len(codes) < count
    /\ codes' = Append(codes, [code |-> generate_code(generator_of(script), draws),
                               status |-> "active"])
    /\ UNCHANGED <<server, generator, parts, code, script, count, used_codes>>

\* the loop is over: codes is returned
generate_codes_return ==
    /\ script # NULL
    /\ Len(codes) >= count
    /\ script' = NULL
    /\ UNCHANGED <<server, generator, parts, code, count, codes, used_codes>>

NextBatch ==
    \/ \E s \in Scripts, n \in 0..MaxCount : generate_codes_call(s, n)
    \/ \E draws \in [1..3 -> BatchDraws] : generate_codes_while(draws)
    \/ \E draws \in [1..4 -> BatchDraws] : generate_codes_for(draws)
    \/ generate_codes_return

SpecBatch == Init /\ [][NextBatch]_vars

-----------------------------------------------------------------------------
(* The admin stops, resumes, toggles and extends the key RaceKey while a    *)
(* client activates it from device A and the clock runs.                    *)

NextFrame ==
    \/ Tick
    \/ \E a \in {<<>>, <<"0">>, <<"1", "ali">>} : generate_command(590918137, a, RaceKey)
    \/ stop_command(590918137, <<RaceKey>>)
    \/ activate_command(590918137, <<RaceKey>>)
    \/ button_callback(590918137, [action |-> "toggle", license_key |-> RaceKey], RaceKey, 0)
    \/ \E e \in {0, 1} : extend_command(590918137, <<RaceKey, "1">>, e)
    \/ \E e \in {0, 1} :
          button_callback(590918137, [action |-> "ext", days |-> 7, license_key |-> RaceKey],
                          RaceKey, e)
    \/ Room(MaxLogs) /\ ActivateRequest("t1", RaceKey, "A")
    \/ Room(MaxLogs) /\ ActivateCommit("t1")

SpecFrame == Init /\ [][NextFrame]_vars

-----------------------------------------------------------------------------
(* Two keys and two request threads: the admin creates the keys and stops   *)
(* RaceKey, both threads activate the keys from device A, thread t2 also    *)
(* verifies and deactivates them, in any interleaving, and the clock runs.  *)

NextClients ==
    \/ Tick
    \/ \E k \in GenKeys : generate_command(590918137, <<>>, k)
    \/ stop_command(590918137, <<RaceKey>>)
    \/ Room(MaxLogs) /\ \E t \in Threads, k \in GenKeys : ActivateRequest(t, k, "A")
    \/ Room(MaxLogs) /\ \E t \in Threads : ActivateCommit(t)
    \/ Room(MaxLogs) /\ \E k \in GenKeys : VerifyRequest("t2", k, "A")
    \/ Room(MaxLogs) /\ VerifyCommit("t2")
    \/ Room(MaxLogs) /\ \E k \in GenKeys : DeactivateRequest("t2", k, "A")

SpecClients == Init /\ [][NextClients]_vars

-----------------------------------------------------------------------------
(* Properties *)

Devices == RequestDevices \ {NULL}

\* the device and the used flag of the row of key k
Binding(L, k) == <<L[k].device_id, L[k].is_used>>

\* C1: of two concurrent /activate requests for the same existing, active,
\* unexpired, unused key with two distinct devices, exactly one is answered with
\* success and the other with 403, and the key is left bound to the device of the
\* successful one (checked under SpecRace, once both are answered).
C1_ExactlyOneWins ==
    RaceOver =>
        \E w \in Threads :
            /\ RaceWon(w)
            /\ \A l \in Threads \ {w} : ~RaceWon(l) /\ out.status = 403
            /\ licenses[RaceKey].device_id = RaceDevice(w)

\* C2: while a key is bound to a device A (an activate for A was answered with
\* success), its device and used flag change only in a step that is a
\* /deactivate request for that key carrying A.
C2_BindingStable ==
    [][\A k \in DOMAIN licenses :
          (licenses[k].is_used /\ Binding(licenses', k) # Binding(licenses, k)) =>
              \E t \in Threads, i \in DeactivateInputs :
                  /\ upper(i[1]) = k
                  /\ i[2] = licenses[k].device_id
                  /\ DeactivateRequest(t, i[1], i[2])]_vars

\* the rows differ at most in the fields named in S
SameBut(row1, row2, S) ==
    \A f \in (DOMAIN row1 \cup DOMAIN row2) \ S :
        f \in DOMAIN row1 /\ f \in DOMAIN row2 /\ row1[f] = row2[f]

\* a step of /verify by thread t
VerifyStep(t) == (\E i \in ClientInputs : VerifyRequest(t, i[1], i[2])) \/ VerifyCommit(t)

\* C3: no step of a /verify request, failed or successful, changes any row of
\* the licenses table: is_active, device_id, is_used and expires_at of every key
\* are the same after it.
C3_VerifyPure ==
    [][\A t \in Threads : VerifyStep(t) =>
          /\ DOMAIN licenses' = DOMAIN licenses
          /\ \A k \in DOMAIN licenses :
                /\ licenses'[k].is_active = licenses[k].is_active
                /\ licenses'[k].device_id = licenses[k].device_id
                /\ licenses'[k].is_used = licenses[k].is_used
                /\ licenses'[k].expires_at = licenses[k].expires_at]_vars

\* a /verify was answered with is_active = true for a key that is in the table
C3_Witness ==
    /\ out.op = "verify" /\ out.is_active
    /\ \E i \in 1..Len(logs) : logs[i].action = "verify" /\ logs[i].license_key \in DOMAIN licenses

\* C4: when the checks of a /verify request pass (the answer is is_active =
\* true), the key is in the table, active, unexpired (now < expires_at), used,
\* and bound to the device of the request, which is present.
C4_VerifyOnlyBound ==
    [][\A t \in Threads, i \in ClientInputs :
          (VerifyRequest(t, i[1], i[2]) /\ pc'[t] = "verify_log") =>
              /\ upper(i[1]) \in DOMAIN licenses
              /\ licenses[upper(i[1])].is_active
              /\ now < licenses[upper(i[1])].expires_at
              /\ licenses[upper(i[1])].is_used
              /\ i[2] # NULL
              /\ licenses[upper(i[1])].device_id = i[2]]_vars

\* the answer C5 expects of /activate: the first failure of the fixed order that
\* applies, else success; atExpiry tells whether now = expires_at counts as expired
C5_Expected(key_in, device_id, atExpiry) ==
    LET k == upper(key_in)
    IN IF key_in = "" \/ device_id = NULL THEN <<400, "missing_data">>
       ELSE IF k \notin DOMAIN licenses THEN <<400, "invalid_code">>
       ELSE IF ~licenses[k].is_active THEN <<423, "stopped_by_admin">>
       ELSE IF now > licenses[k].expires_at \/ (atExpiry /\ now = licenses[k].expires_at)
            THEN <<410, "expired">>
       ELSE IF licenses[k].is_used /\ licenses[k].device_id # device_id
            THEN <<403, "used_on_other_device">>
       ELSE <<200, "activated">>

\* C5: /activate answers with the first that applies of missing field (400), not
\* found (400), suspended (423), expired (410), device mismatch (403); when none
\* applies it goes on to set device_id, is_used and activated_at = now on the row
\* of the key and on no other, append one 'activate' row to the log, and answer
\* success with the plan and expiry of the row.  (Which side of now = expires_at
\* counts as expired is C6's matter: either reading is accepted here.)
C5_ActivateOrder ==
    [][\A t \in Threads :
          /\ \A i \in ClientInputs :
                ActivateRequest(t, i[1], i[2]) =>
                    /\ \E atExpiry \in BOOLEAN :
                          IF pc'[t] = "activate_update"
                          THEN C5_Expected(i[1], i[2], atExpiry)[1] = 200
                          ELSE <<out'.status, out'.message>> = C5_Expected(i[1], i[2], atExpiry)
                    /\ licenses' = licenses /\ logs' = logs
          /\ ActivateCommit(t) =>
                LET k == req[t].license_key
                    d == req[t].device_id
                IN /\ DOMAIN licenses' = DOMAIN licenses
                   /\ \A x \in DOMAIN licenses \ {k} : licenses'[x] = licenses[x]
                   /\ licenses'[k].device_id = d
                   /\ licenses'[k].is_used
                   /\ licenses'[k].activated_at = now
                   /\ SameBut(licenses'[k], licenses[k], {"device_id", "is_used", "activated_at"})
                   /\ logs' = Append(logs, [license_key |-> k, device_id |-> d, action |-> "activate"])
                   /\ out'.op = "activate" /\ out'.status = 200 /\ out'.success
                   /\ out'.plan = licenses[k].plan
                   /\ out'.expires_at = licenses[k].expires_at]_vars

\* an /activate succeeded: the key is bound and the log holds its row
C5_Witness ==
    /\ out.op = "activate" /\ out.status = 200
    /\ \E k \in DOMAIN licenses :
          /\ licenses[k].is_used /\ licenses[k].activated_at = now
          /\ logs # <<>>
          /\ logs[Len(logs)] = [license_key |-> k, device_id |-> licenses[k].device_id,
                                action |-> "activate"]

\* /activate has reached its expiry check for the key k: the fields are there,
\* the key is in the table and active
ActivateAtExpiryCheck(key_in, device_id) ==
    /\ key_in # "" /\ device_id # NULL
    /\ upper(key_in) \in DOMAIN licenses
    /\ licenses[upper(key_in)].is_active

\* /verify has reached its expiry check: the key is in the table, bound as the
\* request says, and active
VerifyAtExpiryCheck(key_in, device_id) ==
    /\ upper(key_in) \in DOMAIN licenses
    /\ licenses[upper(key_in)].device_id = device_id
    /\ licenses[upper(key_in)].is_active

\* C6: /activate and /verify answer Expired whenever now >= expires_at, the
\* instant now = expires_at included, and pass their expiry check only when
\* now < expires_at.
C6_ExpiredFromExpiry ==
    [][\A t \in Threads, i \in ClientInputs :
          LET Expired == now >= licenses[upper(i[1])].expires_at
          IN /\ (ActivateRequest(t, i[1], i[2]) /\ ActivateAtExpiryCheck(i[1], i[2])) =>
                   (Expired <=> (pc'[t] = "idle" /\ out'.status = 410))
             /\ (VerifyRequest(t, i[1], i[2]) /\ VerifyAtExpiryCheck(i[1], i[2])) =>
                   (Expired <=>
                       (pc'[t] = "idle" /\ ~out'.is_active /\ out'.message = "expired"))]_vars

\* C7: the commit of an /activate for the device the key is already bound to
\* leaves the row as it is (device_id, is_used, activated_at and the rest) and
\* answers success.
C7_ReactivateIdempotent ==
    [][\A t \in Threads :
          (/\ ActivateCommit(t)
           /\ licenses[req[t].license_key].is_used
           /\ licenses[req[t].license_key].device_id = req[t].device_id) =>
              /\ licenses' = licenses
              /\ out'.status = 200 /\ out'.success]_vars

\* C8: /deactivate sets device_id to NULL and is_used to false on the row of the
\* key when its device_id equals the device of the request, and changes nothing
\* else of the table; in every other case the table is unchanged; it always
\* answers success and appends one 'deactivate' row to the log.
C8_Deactivate ==
    [][\A t \in Threads, i \in DeactivateInputs :
          DeactivateRequest(t, i[1], i[2]) =>
              LET k == upper(i[1])
              IN /\ IF k \in DOMAIN licenses /\ i[2] # NULL /\ licenses[k].device_id = i[2]
                    THEN /\ DOMAIN licenses' = DOMAIN licenses
                         /\ licenses'[k].device_id = NULL
                         /\ ~licenses'[k].is_used
                         /\ SameBut(licenses'[k], licenses[k], {"device_id", "is_used"})
                         /\ \A x \in DOMAIN licenses \ {k} : licenses'[x] = licenses[x]
                    ELSE licenses' = licenses
                 /\ out' = [op |-> "deactivate", status |-> 200, success |-> TRUE]
                 /\ logs' = Append(logs, [license_key |-> k, device_id |-> i[2],
                                          action |-> "deactivate"])]_vars

\* a /deactivate from the bound device has unbound a key that was activated, and
\* another from a device that is not bound has left a binding in place
C8_Witness ==
    /\ out.op = "deactivate"
    /\ Len(logs) >= 2
    /\ logs[Len(logs)].action = "deactivate"
    /\ logs[Len(logs) - 1].action = "activate"
    /\ logs[Len(logs)].license_key = logs[Len(logs) - 1].license_key
    /\ logs[Len(logs)].device_id = logs[Len(logs) - 1].device_id
    /\ ~licenses[logs[Len(logs)].license_key].is_used
    /\ licenses[logs[Len(logs)].license_key].device_id = NULL

\* C9: when a key is active, unexpired and bound to A, right after the
\* /deactivate of A an /activate of the key for any other device B passes its
\* checks and its UPDATE leaves device_id = B and is_used = true.
C9_Rebind ==
    [][\A t \in Threads, i \in DeactivateInputs :
          LET k == upper(i[1])
          IN (/\ DeactivateRequest(t, i[1], i[2])
              /\ k \in DOMAIN licenses
              /\ licenses[k].is_active
              /\ now < licenses[k].expires_at
              /\ licenses[k].is_used
              /\ licenses[k].device_id = i[2]) =>
                 \A B \in Devices \ {i[2]} :
                     /\ activate_checks(licenses', k, B, now') = "ok"
                     /\ activate_update(licenses', k, B, now')[k].device_id = B
                     /\ activate_update(licenses', k, B, now')[k].is_used]_vars

\* the round trip has run: activate for one device, deactivate of it, activate
\* for the other, and the key is bound to the other
C9_Witness ==
    /\ Len(logs) = 3
    /\ logs[1].action = "activate" /\ logs[2].action = "deactivate" /\ logs[3].action = "activate"
    /\ logs[1].device_id = logs[2].device_id /\ logs[3].device_id # logs[1].device_id
    /\ out.op = "activate" /\ out.status = 200
    /\ licenses[logs[3].license_key].device_id = logs[3].device_id
    /\ licenses[logs[3].license_key].is_used

Max(a, b) == IF a >= b THEN a ELSE b

\* what C10 expects of an extension by `days` of the key license_key, done by a
\* step from `now` to now': the new expiry is max(now, prior expiry) + days, with
\* now read at either end of the step; a key that was expired ends strictly after
\* now; no other row and no other field changes
C10_Extended(license_key, days) ==
    LET prior == licenses[license_key].expires_at
        after == licenses'[license_key].expires_at
    IN /\ DOMAIN licenses' = DOMAIN licenses
       /\ \E clock \in {now, now'} : after = Max(clock, prior) + days
       /\ prior < now => after > now'
       /\ SameBut(licenses'[license_key], licenses[license_key], {"expires_at"})
       /\ \A x \in DOMAIN licenses \ {license_key} : licenses'[x] = licenses[x]

\* C10: /extend with a number of days the command accepts, and each ext button,
\* from an admin, sets expires_at of a key of the table to max(now, prior
\* expires_at) + days and changes nothing else; for a key that was expired the new
\* expires_at is strictly after now; /extend for a key that is not in the table
\* replies not-found and changes nothing.
C10_Extend ==
    [][\A u \in ADMIN_IDS, e \in {0, 1} :
          /\ \A a \in {x \in ExtendArgs : Len(x) >= 2 /\ int_ok(x[2])} :
                extend_command(u, a, e) =>
                    IF upper(a[1]) \in DOMAIN licenses
                    THEN C10_Extended(upper(a[1]), int(a[2]))
                    ELSE out' = bot_reply("/extend", "not_found") /\ licenses' = licenses
          /\ \A data \in {b \in ButtonData : b.action = "ext"}, k \in GenKeys :
                (button_callback(u, data, k, e) /\ data.license_key \in DOMAIN licenses) =>
                    C10_Extended(data.license_key, data.days)]_vars

\* C11: in every step the expires_at of every row of the table stays or grows,
\* and it changes only in a step of /extend or of an ext button that replies
\* that the key was extended.
C11_ExpiryMonotonic ==
    [][\A k \in DOMAIN licenses :
          /\ k \in DOMAIN licenses'
          /\ licenses'[k].expires_at >= licenses[k].expires_at
          /\ licenses'[k].expires_at # licenses[k].expires_at =>
                out' \in {bot_reply("/extend", "extended"), bot_reply("button", "extended")}]_vars

\* the request names a key of the table and carries the device the key is bound to
FromBoundDevice(key_in, device_id) ==
    /\ upper(key_in) \in DOMAIN licenses
    /\ device_id # NULL
    /\ licenses[upper(key_in)].is_used
    /\ licenses[upper(key_in)].device_id = device_id

BotStep(u) ==
    \/ \E a \in GenerateArgs, k \in GenKeys : generate_command(u, a, k)
    \/ list_command(u)
    \/ \E a \in KeyArgs : info_command(u, a) \/ stop_command(u, a) \/ activate_command(u, a)
    \/ \E a \in ExtendArgs, e \in {0, 1} : extend_command(u, a, e)
    \/ stats_command(u)
    \/ \E data \in ButtonData, k \in GenKeys, e \in {0, 1} : button_callback(u, data, k, e)

C14_Fresh(row, days) ==
    /\ row.is_active /\ ~row.is_used
    /\ row.device_id = NULL /\ row.activated_at = NoTime
    /\ row.expires_at = now + days
    /\ row.expires_at > row.created_at

\* C14: the row that /generate (for the number of days it takes from its
\* arguments, 30 by default) or the gen_monthly button (30 days) inserts is
\* active, unused, without device and activated_at, expires at now + days, and
\* expires strictly later than it was created.
C14_Create ==
    [][\A u \in ADMIN_IDS, k \in GenKeys \ DOMAIN licenses :
          /\ \A a \in GenerateArgs :
                generate_command(u, a, k) =>
                    /\ k \in DOMAIN licenses'
                    /\ C14_Fresh(licenses'[k], IF Len(a) > 0 /\ isdigit(a[1]) THEN int(a[1]) ELSE 30)
          /\ button_callback(u, [action |-> "gen_monthly"], k, 0) =>
                /\ k \in DOMAIN licenses'
                /\ C14_Fresh(licenses'[k], 30)]_vars

\* C15: a create whose generated key is already in the table generates another
\* key and tries again, and gives up only when a bounded number of attempts is
\* used up.  A step of /generate or of the gen_monthly button calls the generator
\* once, so no such step may end in the failure of the INSERT: the step whose one
\* key collides has attempts left.
C15_RetryOnCollision ==
    [][\A u \in ADMIN_IDS, k \in DOMAIN licenses :
          /\ \A a \in GenerateArgs :
                generate_command(u, a, k) => out' # bot_reply("/generate", "raised")
          /\ button_callback(u, [action |-> "gen_monthly"], k, 0) =>
                out' # bot_reply("button", "raised")]_vars

\* C16: the table holds one row per key (license_key is UNIQUE): a create whose
\* key is already in the table raises and leaves that row and every other row as
\* they are, and every key of the table stays in it in every step.
C16_UniqueKey ==
    [][/\ DOMAIN licenses \subseteq DOMAIN licenses'
       /\ \A u \in ADMIN_IDS, k \in DOMAIN licenses :
             /\ \A a \in GenerateArgs :
                   generate_command(u, a, k) =>
                       licenses' = licenses /\ out' = bot_reply("/generate", "raised")
             /\ button_callback(u, [action |-> "gen_monthly"], k, 0) =>
                   licenses' = licenses /\ out' = bot_reply("button", "raised")]_vars

\* a create has raised on a key whose row was made before and stopped since
C16_Witness ==
    /\ out \in {bot_reply("/generate", "raised"), bot_reply("button", "raised")}
    /\ \E k \in DOMAIN licenses : licenses[k].created_at < now /\ ~licenses[k].is_active

\* C17: when the INSERT of the log row of an /activate or a /deactivate fails,
\* the UPDATE of the licenses table is committed all the same and the request is
\* answered with its result (success).
C17_LogFailureKeepsMutation ==
    [][\A t \in Threads :
          /\ ActivateLogFails(t) =>
                /\ licenses' = activate_update(licenses, req[t].license_key,
                                               req[t].device_id, now)
                /\ out'.status = 200
          /\ \A i \in DeactivateInputs :
                DeactivateLogFails(t, i[1], i[2]) =>
                    /\ licenses' = deactivate_update(licenses, upper(i[1]), i[2])
                    /\ out'.status = 200]_vars

\* whether /verify passes, told from the request, the licenses table and the clock
C18_VerifyPasses(key_in, device_id) ==
    /\ upper(key_in) \in DOMAIN licenses
    /\ licenses[upper(key_in)].device_id = device_id
    /\ licenses[upper(key_in)].is_active
    /\ now <= licenses[upper(key_in)].expires_at

\* C18: every step leaves the rows of the log in place and in order and adds at
\* most one row at the end, whose action is activate, verify or deactivate; and
\* what /activate, /verify and /deactivate decide is told by the request, the
\* licenses table and the clock alone, whatever the log holds.
C18_LogAppendOnly ==
    [][/\ Len(logs') \in {Len(logs), Len(logs) + 1}
       /\ SubSeq(logs', 1, Len(logs)) = logs
       /\ Len(logs') > Len(logs) =>
             logs'[Len(logs')].action \in {"activate", "verify", "deactivate"}
       /\ \A t \in Threads :
             /\ \A i \in ClientInputs :
                   /\ ActivateRequest(t, i[1], i[2]) =>
                         ((pc'[t] = "activate_update") <=>
                             C5_Expected(i[1], i[2], FALSE)[1] = 200)
                   /\ VerifyRequest(t, i[1], i[2]) =>
                         ((pc'[t] = "verify_log") <=> C18_VerifyPasses(i[1], i[2]))
             /\ \A i \in DeactivateInputs :
                   DeactivateRequest(t, i[1], i[2]) =>
                       \A k \in DOMAIN licenses :
                           licenses'[k] # licenses[k] <=>
                               (k = upper(i[1]) /\ i[2] # NULL /\ licenses[k].device_id = i[2])]_vars

\* the log holds two rows, the later written by a request that found the earlier
C18_Witness ==
    /\ Len(logs) = 2
    /\ logs[1].action = "activate"
    /\ logs[2].action \in {"verify", "deactivate"}
    /\ logs[2].license_key = logs[1].license_key

\* the fields of a response that tell about the row
RowFields(response) == DOMAIN response \cap {"expires_at", "plan", "user_name"}

\* the key is bound, and to another device than the request carries
BoundElsewhere(k, device_id) ==
    /\ k \in DOMAIN licenses
    /\ licenses[k].is_used /\ licenses[k].device_id # NULL
    /\ licenses[k].device_id # device_id

C20_Plan(days) ==
    CASE days <= 7 -> "trial"
      [] days > 7 /\ days <= 30 -> "monthly"
      [] days > 30 /\ days <= 90 -> "quarterly"
      [] days > 90 /\ days <= 365 -> "yearly"
      [] OTHER -> "lifetime"

Plans == {"trial", "monthly", "quarterly", "yearly", "lifetime"}

\* C20: the plan of the row /generate inserts is the tier of its number of days
\* (trial up to 7, monthly up to 30, quarterly up to 90, yearly up to 365,
\* lifetime above); no step changes the plan of a row; and the checks of
\* /activate and /verify give the same result whatever plan the row has.
C20_PlanOfDuration ==
    [][/\ \A k \in DOMAIN licenses :
             /\ k \in DOMAIN licenses' /\ licenses'[k].plan = licenses[k].plan
             /\ \A p \in Plans, d \in RequestDevices :
                   LET L == [licenses EXCEPT ![k].plan = p]
                   IN /\ activate_checks(L, k, d, now) = activate_checks(licenses, k, d, now)
                      /\ verify_checks(L, k, d, now) = verify_checks(licenses, k, d, now)
       /\ \A u \in ADMIN_IDS, a \in PlanArgs, k \in GenKeys \ DOMAIN licenses :
             generate_command(u, a, k) =>
                 /\ k \in DOMAIN licenses'
                 /\ licenses'[k].plan = C20_Plan(licenses'[k].expires_at - now)]_vars

\* a key of the quarterly tier is in use and a /verify of it has passed
C20_Witness ==
    /\ out.op = "verify" /\ out.is_active /\ out.plan = "quarterly"
    /\ \E k \in DOMAIN licenses :
          licenses[k].plan = "quarterly" /\ licenses[k].is_used /\ licenses[k].expires_at = 90

\* uppercase letters and digits without 0, O, 1 and I
C21_Alphabet ==
    {ascii_uppercase_digits[i] : i \in 1..Len(ascii_uppercase_digits)} \ {"0", "O", "1", "I"}

\* GNP, then three times a hyphen and four characters of C21_Alphabet
C21_WellFormed(key) ==
    /\ Len(key) = 18
    /\ SubSeq(key, 1, 3) = <<"G", "N", "P">>
    /\ \A i \in 4..18 : IF i \in {4, 9, 14} THEN key[i] = "-" ELSE key[i] \in C21_Alphabet

\* C21: every key a generator returns is GNP followed by exactly three
\* hyphen-separated segments of exactly four characters, each an uppercase
\* letter or digit other than 0, O, 1 and I.
C21_KeyFormat == code # NULL => C21_WellFormed(code)

\* C22: the list a batch generator returns has exactly the requested number of
\* keys and no key twice, whatever the random source yields.
C22_BatchDistinct ==
    script = NULL =>
        /\ Len(codes) = count
        /\ \A i, j \in 1..Len(codes) : i # j => codes[i].code # codes[j].code

\* the answer C23 expects to a /verify of key_in from device_id, as far as it
\* fixes one: the key is looked up first, then the device, then the active
\* flag, then the expiry
C23_Expected(key_in, device_id) ==
    LET k == upper(key_in)
    IN /\ out'.status = 200
       /\ ~out'.is_active
       /\ k \notin DOMAIN licenses => out'.message = "code_not_found"
       /\ k \in DOMAIN licenses =>
            /\ licenses[k].device_id # device_id => out'.message = "device_not_allowed"
            /\ licenses[k].device_id = device_id /\ ~licenses[k].is_active =>
                   out'.message = "stopped"
            /\ licenses[k].device_id = device_id /\ licenses[k].is_active
                 /\ now > licenses[k].expires_at => out'.message = "expired"

\* C23: /verify fails in the order not found, device mismatch, suspended,
\* expired, so a suspended or expired key asked for from another device than the
\* bound one is answered with the device mismatch; and every answer of /verify
\* has the HTTP status 200 with is_active telling the result.
C23_VerifyOrder ==
    [][/\ \A i \in ClientInputs :
             VerifyRequest("t1", i[1], i[2]) /\ pc'["t1"] = "idle" => C23_Expected(i[1], i[2])
       /\ VerifyCommit("t1") => out'.status = 200 /\ out'.is_active]_vars

\* a key that is bound, suspended and expired has been asked for from another
\* device and the answer is the device mismatch
C23_Witness ==
    /\ out.op = "verify" /\ ~out.is_active /\ out.message = "device_not_allowed"
    /\ \E k \in DOMAIN licenses :
          /\ licenses[k].is_used /\ licenses[k].device_id = "A"
          /\ ~licenses[k].is_active
          /\ now > licenses[k].expires_at

\* every row is still there and differs from what it was in the fields S at most
C24_OnlyFields(S) ==
    /\ DOMAIN licenses' = DOMAIN licenses
    /\ \A k \in DOMAIN licenses : SameBut(licenses[k], licenses'[k], S)

\* a step of /stop, /activate or the toggle button of the admin
C24_FlagStep ==
    \/ stop_command(590918137, <<RaceKey>>)
    \/ activate_command(590918137, <<RaceKey>>)
    \/ button_callback(590918137, [action |-> "toggle", license_key |-> RaceKey], RaceKey, 0)

\* a step of /extend or of an ext button of the admin
C24_ExtendStep ==
    \E e \in {0, 1} :
        \/ extend_command(590918137, <<RaceKey, "1">>, e)
        \/ button_callback(590918137, [action |-> "ext", days |-> 7, license_key |-> RaceKey],
                           RaceKey, e)

\* C24: /stop, /activate and the toggle button change is_active alone, /extend
\* and the ext buttons change expires_at alone: device_id, is_used, activated_at
\* and plan of every row stay as they are, a resumed key keeps its expires_at,
\* and a key that was expired when it is resumed is still expired.
C24_AdminFrame ==
    [][/\ C24_FlagStep =>
            /\ C24_OnlyFields({"is_active"})
            /\ \A k \in DOMAIN licenses :
                  now > licenses[k].expires_at => now' > licenses'[k].expires_at
       /\ C24_ExtendStep => C24_OnlyFields({"expires_at"})]_vars

\* a key bound to a device was stopped and has been resumed after its expiry
C24_Witness ==
    /\ out = bot_reply("/activate", "activated")
    /\ \E k \in DOMAIN licenses :
          /\ licenses[k].is_used /\ licenses[k].device_id = "A"
          /\ licenses[k].is_active
          /\ now > licenses[k].expires_at

\* no row appears or goes, is_active, expires_at and plan of every row stay as
\* they are, and every row but that of license_key stays as it is
C25_ClientFrame(license_key) ==
    /\ DOMAIN licenses' = DOMAIN licenses
    /\ \A k \in DOMAIN licenses :
          /\ licenses'[k].is_active = licenses[k].is_active
          /\ licenses'[k].expires_at = licenses[k].expires_at
          /\ licenses'[k].plan = licenses[k].plan
          /\ k # license_key => licenses'[k] = licenses[k]

\* C25: no step of /activate, /verify or /deactivate, in any state and any
\* interleaving of two requests, changes is_active, expires_at or plan of any
\* row, or any field of a row of another key than the one the request names.
C25_ClientsKeepFlag ==
    [][\A t \in Threads :
          /\ \A k \in GenKeys :
                \/ ActivateRequest(t, k, "A")
                \/ VerifyRequest(t, k, "A")
                \/ DeactivateRequest(t, k, "A")
                => C25_ClientFrame(k)
          /\ ActivateCommit(t) \/ VerifyCommit(t) => C25_ClientFrame(req[t].license_key)]_vars

\* a key is suspended and an /activate of it has just been turned down, while
\* the other key is bound to a device
C25_Witness ==
    /\ out.op = "activate" /\ out.status = 423
    /\ \E k1, k2 \in DOMAIN licenses :
          /\ k1 # k2
          /\ ~licenses[k1].is_active
          /\ licenses[k2].is_used /\ licenses[k2].is_active

\* C26: in every reachable state a row has is_used exactly if it has a
\* device_id; a row is created unused; is_used becomes true only in the UPDATE
\* of a successful /activate of the key, and becomes false only in a
\* /deactivate of the key sent with the device_id the row holds.
C26_UsedIffBound ==
    /\ [](\A k \in DOMAIN licenses : licenses[k].is_used <=> licenses[k].device_id # NULL)
    /\ [][\A k \in DOMAIN licenses' :
             IF k \notin DOMAIN licenses
             THEN ~licenses'[k].is_used
             ELSE /\ ~licenses[k].is_used /\ licenses'[k].is_used =>
                        /\ ActivateCommit("t1")
                        /\ req["t1"].license_key = k
                        /\ out'.op = "activate" /\ out'.success
                  /\ licenses[k].is_used /\ ~licenses'[k].is_used =>
                        \E i \in DeactivateInputs :
                            /\ DeactivateRequest("t1", i[1], i[2])
                            /\ upper(i[1]) = k
                            /\ i[2] = licenses[k].device_id]_vars

\* a key bound to device A has been asked to be released by device B and is
\* still in use
C26_Witness ==
    /\ out.op = "deactivate"
    /\ Len(logs) > 0
    /\ logs[Len(logs)].action = "deactivate" /\ logs[Len(logs)].device_id = "B"
    /\ \E k \in DOMAIN licenses :
          /\ logs[Len(logs)].license_key = k
          /\ licenses[k].is_used /\ licenses[k].device_id = "A"

\* C27: an /activate or /verify that is turned down (fields missing, key not
\* found, suspended, expired, other device) changes no row of licenses and
\* appends nothing to activation_logs; one that succeeds appends exactly one
\* row, with the key, the device and the action of the request.
C27_FailureWritesNothing ==
    [][/\ \A i \in ClientInputs :
             /\ ActivateRequest("t1", i[1], i[2]) =>
                    /\ licenses' = licenses /\ logs' = logs
                    /\ pc'["t1"] = "idle" => out'.op = "activate" /\ ~out'.success
             /\ VerifyRequest("t1", i[1], i[2]) =>
                    /\ licenses' = licenses /\ logs' = logs
                    /\ pc'["t1"] = "idle" => out'.op = "verify" /\ ~out'.is_active
       /\ ActivateCommit("t1") =>
             /\ out'.success
             /\ logs' = Append(logs, [license_key |-> req["t1"].license_key,
                                      device_id |-> req["t1"].device_id,
                                      action |-> "activate"])
       /\ VerifyCommit("t1") =>
             /\ out'.is_active
             /\ logs' = Append(logs, [license_key |-> req["t1"].license_key,
                                      device_id |-> req["t1"].device_id,
                                      action |-> "verify"])]_vars

\* the key is bound to device A by the one logged activate, and an /activate
\* from another device has been turned down
C27_Witness ==
    /\ out.op = "activate" /\ out.status = 403
    /\ Len(logs) = 1
    /\ logs[1].action = "activate" /\ logs[1].device_id = "A"
    /\ \E k \in DOMAIN licenses : licenses[k].is_used /\ licenses[k].device_id = "A"

\* C28: a handler reads the clock once.  The activated_at an /activate writes
\* is the time it compared with expires_at of the row it read, so it is not
\* after that expires_at; and the expiry /extend or an ext button gives an
\* expired key is counted from the time it compared with the old expiry, even
\* when the clock advances while the handler runs.
C28_ClockReadOnce ==
    [][/\ ActivateCommit("t1") =>
             licenses'[req["t1"].license_key].activated_at
                 <= req["t1"].license_row.expires_at
       /\ \A e \in {0, 1} :
             /\ RaceKey \in DOMAIN licenses
             /\ licenses[RaceKey].expires_at < now
             =>
             /\ extend_command(590918137, <<RaceKey, "1">>, e) =>
                    licenses'[RaceKey].expires_at = now + 1
             /\ button_callback(590918137,
                                [action |-> "ext", days |-> 7, license_key |-> RaceKey],
                                RaceKey, e) =>
                    licenses'[RaceKey].expires_at = now + 7]_vars

=============================================================================
